---- MODULE Spec2Model ----
(***************************************************************************)
(* Model of build_linux/clang-tidy/filter_clang_tidy.py: the pipeline      *)
(* read_args, read_config, read_commands, filter_sources, filter_headers,  *)
(* save_commands over the module-level globals.                            *)
(*                                                                         *)
(* Strings are sequences of one-character strings, so that substring       *)
(* search, str.replace, str.lstrip, os.path.dirname, os.path.normpath and  *)
(* os.path.relpath are computed character by character as Python does.    *)
(* The lists commands_inc and commands_exc hold references to the dict     *)
(* objects of `commands`; they are modelled as indices into `commands`.    *)
(***************************************************************************)
EXTENDS Integers, Sequences, FiniteSets, TLC

VARIABLES
    pc,               \* position of main(): the next function to call
    argv0_dir,        \* environment: directory of sys.argv[0]
    arg_build,        \* environment: --build argument
    arg_config,       \* environment: --config argument
    config_exists,    \* environment: os.path.exists(path_config)
    database_exists,  \* environment: os.path.exists(path_database)
    config_file,      \* environment: parsed content of the config JSON
    database_file,    \* environment: parsed content of compile_commands.json
    path_config, path_build, path_relative,
    commands, excludes, commands_inc, commands_exc,
    out_inc,          \* content of compile_commands_inc.json
    out_exc,          \* content of compile_commands_exc.json
    exit_status       \* process exit status; -1 while the process runs

vars == <<pc, argv0_dir, arg_build, arg_config, config_exists, database_exists,
          config_file, database_file, path_config, path_build, path_relative,
          commands, excludes, commands_inc, commands_exc, out_inc, out_exc,
          exit_status>>

env == <<argv0_dir, arg_build, arg_config, config_exists, database_exists,
         config_file, database_file>>

----------------------------------------------------------------------------
\* Module constants of the script

MutTerminateOk == TRUE

TERMINATE_OK == FALSE

REPLACE_WITH_SYSTEM_HEADERS == TRUE

DEF_BUILD == <<".", ".", "/", ".", ".", "/", "_", "b", "u", "i", "l", "d">>

DEF_CONFIG == <<"e", "x", "c", "l", "u", "d", "e", "s", "_", "c", "l", "a", "n", "g",
                "_", "t", "i", "d", "y", ".", "j", "s", "o", "n">>

Sep == "/"

CurDir == <<".">>

ParDir == <<".", ".">>

NotWritten == "not written"

----------------------------------------------------------------------------
\* Python str operations

\* s[i-1:].startswith(t), i counted from 1
OccursAt(s, t, i) ==
    /\ i >= 1
    /\ i + Len(t) - 1 <= Len(s)
    /\ \A k \in 1..Len(t) : s[i + k - 1] = t[k]

\* t in s
Contains(t, s) == \E i \in 1..(Len(s) + 1) : OccursAt(s, t, i)

StartsWith(s, t) == OccursAt(s, t, 1)

EndsWith(s, t) == Len(t) <= Len(s) /\ OccursAt(s, t, Len(s) - Len(t) + 1)

RECURSIVE ReplaceFrom(_, _, _, _)
ReplaceFrom(s, old, new, i) ==
    IF i > Len(s) THEN <<>>
    ELSE IF OccursAt(s, old, i)
         THEN new \o ReplaceFrom(s, old, new, i + Len(old))
         ELSE <<s[i]>> \o ReplaceFrom(s, old, new, i + 1)

RECURSIVE Interleave(_, _, _)
Interleave(s, new, i) ==
    IF i > Len(s) THEN new ELSE new \o <<s[i]>> \o Interleave(s, new, i + 1)

\* s.replace(old, new): every non-overlapping occurrence, scanning left to right
Replace(s, old, new) ==
    IF old = <<>> THEN Interleave(s, new, 1) ELSE ReplaceFrom(s, old, new, 1)

RECURSIVE Lstrip(_, _)
\* s.lstrip(c) for a one-character c
Lstrip(s, c) ==
    IF s # <<>> /\ s[1] = c THEN Lstrip(Tail(s), c) ELSE s

RECURSIVE Rstrip(_, _)
Rstrip(s, c) ==
    IF s # <<>> /\ s[Len(s)] = c THEN Rstrip(SubSeq(s, 1, Len(s) - 1), c) ELSE s

RECURSIVE SplitFrom(_, _, _, _)
SplitFrom(s, c, i, cur) ==
    IF i > Len(s) THEN <<cur>>
    ELSE IF s[i] = c THEN <<cur>> \o SplitFrom(s, c, i + 1, <<>>)
         ELSE SplitFrom(s, c, i + 1, Append(cur, s[i]))

\* s.split(c) for a one-character c
Split(s, c) == SplitFrom(s, c, 1, <<>>)

RECURSIVE JoinFrom(_, _, _)
JoinFrom(c, parts, i) ==
    IF i > Len(parts) THEN <<>>
    ELSE IF i = Len(parts) THEN parts[i]
         ELSE parts[i] \o <<c>> \o JoinFrom(c, parts, i + 1)

\* c.join(parts)
Join(c, parts) == JoinFrom(c, parts, 1)

\* s.rfind(c) + 1: the position (from 1) of the last c, or 0
RFind(s, c) ==
    IF \E i \in 1..Len(s) : s[i] = c
    THEN CHOOSE i \in 1..Len(s) : s[i] = c /\ \A k \in (i + 1)..Len(s) : s[k] # c
    ELSE 0

----------------------------------------------------------------------------
\* posixpath operations

IsAbs(p) == StartsWith(p, <<Sep>>)

\* os.path.join(a, b)
PathJoin(a, b) ==
    IF IsAbs(b) THEN b
    ELSE IF a = <<>> \/ EndsWith(a, <<Sep>>) THEN a \o b
         ELSE a \o <<Sep>> \o b

\* os.path.dirname(p)
Dirname(p) ==
    LET head == SubSeq(p, 1, RFind(p, Sep))
    IN  IF head # <<>> /\ (\E k \in 1..Len(head) : head[k] # Sep)
        THEN Rstrip(head, Sep) ELSE head

RECURSIVE NormComps(_, _, _, _)
NormComps(comps, i, slashes, new) ==
    IF i > Len(comps) THEN new
    ELSE LET comp == comps[i]
         IN  IF comp = <<>> \/ comp = CurDir
             THEN NormComps(comps, i + 1, slashes, new)
             ELSE IF \/ comp # ParDir
                     \/ (slashes = 0 /\ new = <<>>)
                     \/ (new # <<>> /\ new[Len(new)] = ParDir)
                  THEN NormComps(comps, i + 1, slashes, Append(new, comp))
                  ELSE IF new # <<>>
                       THEN NormComps(comps, i + 1, slashes, SubSeq(new, 1, Len(new) - 1))
                       ELSE NormComps(comps, i + 1, slashes, new)

\* os.path.normpath(p)
Normpath(p) ==
    IF p = <<>> THEN CurDir
    ELSE LET slashes == IF ~StartsWith(p, <<Sep>>) THEN 0
                        ELSE IF StartsWith(p, <<Sep, Sep>>) /\ ~StartsWith(p, <<Sep, Sep, Sep>>)
                             THEN 2 ELSE 1
             joined == Join(Sep, NormComps(Split(p, Sep), 1, slashes, <<>>))
             res    == [k \in 1..slashes |-> Sep] \o joined
         IN  IF res = <<>> THEN CurDir ELSE res

\* os.path.abspath(p) with the process working directory cwd
Abspath(p, cwd) == Normpath(IF IsAbs(p) THEN p ELSE PathJoin(cwd, p))

\* os.path.realpath(p): no symbolic links exist in the modelled file system
Realpath(p, cwd) == Abspath(p, cwd)

NonEmptyParts(p) == SelectSeq(Split(p, Sep), LAMBDA x : x # <<>>)

\* length of the common prefix of two lists
CommonLen(a, b) ==
    LET m == IF Len(a) < Len(b) THEN Len(a) ELSE Len(b)
        agree == {k \in 0..m : \A q \in 1..k : a[q] = b[q]}
    IN  CHOOSE k \in agree : \A q \in agree : q <= k

\* os.path.relpath(path, start) with the process working directory cwd
Relpath(path, start, cwd) ==
    LET start_list == NonEmptyParts(Abspath(start, cwd))
        path_list  == NonEmptyParts(Abspath(path, cwd))
        i          == CommonLen(start_list, path_list)
        rel_list   == [k \in 1..(Len(start_list) - i) |-> ParDir]
                        \o SubSeq(path_list, i + 1, Len(path_list))
    IN  IF rel_list = <<>> THEN CurDir ELSE Join(Sep, rel_list)

----------------------------------------------------------------------------
\* The script's functions

\* read_config, loop body: one exclusion string from one raw rule
BuildExclude(exclude_raw) == <<Sep>> \o Join(Sep, exclude_raw)

\* exit status of a missing input file: sys.exit(0) or raise SystemExit(message)
MissingFileStatus == IF TERMINATE_OK THEN 0 ELSE 1

\* filter_sources: path_str of one command
PathStr(command, rel) == <<Sep>> \o Relpath(Dirname(command.file), rel, rel)

MutIncludeFolderFirstOnly(command, excl, rel) ==
    ~(excl # <<>> /\ Contains(excl[1], PathStr(command, rel)))

\* filter_sources: include_folder after the loop over excludes (the break only
\* stops the scan at the first match)
IncludeFolder(command, excl, rel) ==
    ~\E j \in 1..Len(excl) : Contains(excl[j], PathStr(command, rel))

MutClassifyDrop(part, k, include) ==
    IF include THEN [part EXCEPT !.inc = Append(@, k)] ELSE part

MutClassifyFront(part, k, include) ==
    IF include THEN [part EXCEPT !.inc = <<k>> \o @]
    ELSE [part EXCEPT !.exc = <<k>> \o @]

\* filter_sources: the append to commands_inc or commands_exc
Classify(part, k, include) ==
    IF include THEN [part EXCEPT !.inc = Append(@, k)]
    ELSE [part EXCEPT !.exc = Append(@, k)]

RECURSIVE PartitionFrom(_, _, _, _, _)
\* filter_sources: the loop over commands, from the k-th command on
PartitionFrom(cmds, excl, rel, k, part) ==
    IF k > Len(cmds) THEN part
    ELSE PartitionFrom(cmds, excl, rel, k + 1,
                       Classify(part, k, IncludeFolder(cmds[k], excl, rel)))

\* filter_headers: exclude_path, header_include and header_system of one exclude
ExcludePath(exclude, rel) == PathJoin(rel, exclude)

HeaderInclude(exclude, rel) == <<"-", "I">> \o ExcludePath(exclude, rel)

HeaderSystem(exclude, rel) ==
    <<"-", "i", "s", "y", "s", "t", "e", "m", " ">> \o ExcludePath(exclude, rel)

MutRewriteAnyInclude(text, exclude, rel) ==
    Replace(text, <<"-", "I">>, <<"-", "i", "s", "y", "s", "t", "e", "m", " ">>)

\* filter_headers: the body of the loop over excludes, on one command string
RewriteOne(text, exclude, rel) ==
    IF Contains(HeaderInclude(exclude, rel), text)
    THEN Replace(text, HeaderInclude(exclude, rel), HeaderSystem(exclude, rel))
    ELSE text

RECURSIVE RewriteFrom(_, _, _, _)
RewriteFrom(text, excl, rel, j) ==
    IF j > Len(excl) THEN text
    ELSE RewriteFrom(RewriteOne(text, excl[j], rel), excl, rel, j + 1)

\* filter_headers: the loop over excludes, on one command string
RewriteCommand(text, excl, rel) == RewriteFrom(text, excl, rel, 1)

RECURSIVE RewriteEntries(_, _, _, _, _)
\* filter_headers: the loop over the entries that the list `targets` refers to
RewriteEntries(cmds, targets, excl, rel, k) ==
    IF k > Len(targets) THEN cmds
    ELSE RewriteEntries(
            [cmds EXCEPT ![targets[k]].command = RewriteCommand(@, excl, rel)],
            targets, excl, rel, k + 1)

MutHeaderTargets(cmds, inc) == [k \in 1..Len(cmds) |-> k]

\* filter_headers: the list whose entries are rewritten
HeaderTargets(cmds, inc) == inc

\* save_commands: the array json.dump writes for a list of references
Dump(cmds, refs) == [k \in 1..Len(refs) |-> cmds[refs[k]]]

----------------------------------------------------------------------------
\* Bounds and the inputs of a run

MaxEntries == 2

MaxRules == 2

SeqsUpTo(S, n) == UNION {[1..k -> S] : k \in 0..n}

ScriptDir == <<"/", "p">>

AbsBuild == <<"/", "b">>

AbsConfig == <<"/", "c">>

FileSrc == <<"/", "p", "/", "s", "/", "a">>

FileVendor == <<"/", "p", "/", "v", "/", "a">>

FileVendorVendor == <<"/", "p", "/", "v", "v", "/", "a">>

FileOutside == <<"/", "x", "/", "v", "/", "a">>

CmdVendor == <<"-", "I", "/", "p", "/", "v">>

CmdOther == <<"-", "I", "/", "x">>

CmdVendor2 == <<"-", "I", "/", "p", "/", "v", "2">>

CmdTwice == <<"-", "I", "/", "p", "/", "v", " ", "-", "I", "/", "p", "/", "v">>

CmdDash == <<"-", "I", "/", "p", "/", "v", "-", "I", "/", "p", "/", "v", "-">>

RuleVendor == << <<"v">> >>

RuleSrc == << <<"s">> >>

RuleOutside == << <<"x">>, <<"v">> >>

RuleDash == << <<"v", "-">> >>

Entries(Files, Commands) ==
    {[directory |-> AbsBuild, command |-> c, file |-> f] : f \in Files, c \in Commands}

InitOver(Builds, Configs, Files, Commands, Rules) ==
    /\ pc = "read_args"
    /\ argv0_dir = ScriptDir
    /\ arg_build \in Builds
    /\ arg_config \in Configs
    /\ config_exists \in BOOLEAN
    /\ database_exists \in BOOLEAN
    /\ config_file \in (IF config_exists THEN SeqsUpTo(Rules, MaxRules) ELSE {<<>>})
    /\ database_file \in (IF database_exists
                          THEN SeqsUpTo(Entries(Files, Commands), MaxEntries)
                          ELSE {<<>>})
    /\ path_config = <<>>
    /\ path_build = <<>>
    /\ path_relative = <<>>
    /\ commands = <<>>
    /\ excludes = <<>>
    /\ commands_inc = <<>>
    /\ commands_exc = <<>>
    /\ out_inc = NotWritten
    /\ out_exc = NotWritten
    /\ exit_status = -1

Init ==
    InitOver({DEF_BUILD}, {DEF_CONFIG},
             {FileSrc, FileVendor, FileVendorVendor, FileOutside},
             {CmdVendor, CmdOther},
             {RuleVendor, RuleSrc, RuleOutside})

InitHeaders ==
    InitOver({DEF_BUILD, AbsBuild}, {DEF_CONFIG, AbsConfig},
             {FileSrc, FileVendor},
             {CmdVendor, CmdVendor2, CmdTwice, CmdDash},
             {RuleVendor, RuleSrc, RuleDash})

----------------------------------------------------------------------------
\* One action per function main() calls

ReadArgs ==
    /\ pc = "read_args"
    /\ path_relative' = argv0_dir
    /\ path_build' = IF IsAbs(arg_build) THEN arg_build
                     ELSE Realpath(PathJoin(argv0_dir, arg_build), argv0_dir)
    /\ path_config' = IF IsAbs(arg_config) THEN arg_config
                      ELSE Realpath(PathJoin(argv0_dir, arg_config), argv0_dir)
    /\ pc' = "read_config"
    /\ UNCHANGED <<env, commands, excludes, commands_inc, commands_exc,
                   out_inc, out_exc, exit_status>>

ReadConfig ==
    /\ pc = "read_config"
    /\ IF ~config_exists
       THEN /\ pc' = "exit"
            /\ exit_status' = MissingFileStatus
            /\ UNCHANGED excludes
       ELSE /\ excludes' = excludes \o
                    [i \in 1..Len(config_file) |-> BuildExclude(config_file[i])]
            /\ pc' = "read_commands"
            /\ UNCHANGED exit_status
    /\ UNCHANGED <<env, path_config, path_build, path_relative, commands,
                   commands_inc, commands_exc, out_inc, out_exc>>

ReadCommands ==
    /\ pc = "read_commands"
    /\ IF ~database_exists
       THEN /\ pc' = "exit"
            /\ exit_status' = MissingFileStatus
            /\ UNCHANGED commands
       ELSE /\ commands' = database_file
            /\ pc' = "filter_sources"
            /\ UNCHANGED exit_status
    /\ UNCHANGED <<env, path_config, path_build, path_relative, excludes,
                   commands_inc, commands_exc, out_inc, out_exc>>

FilterSources ==
    /\ pc = "filter_sources"
    /\ LET part == PartitionFrom(commands, excludes, path_relative, 1,
                                 [inc |-> commands_inc, exc |-> commands_exc])
       IN  /\ commands_inc' = part.inc
           /\ commands_exc' = part.exc
    /\ pc' = "filter_headers"
    /\ UNCHANGED <<env, path_config, path_build, path_relative, commands,
                   excludes, out_inc, out_exc, exit_status>>

FilterHeaders ==
    /\ pc = "filter_headers"
    /\ IF REPLACE_WITH_SYSTEM_HEADERS
       THEN /\ excludes' = [i \in 1..Len(excludes) |-> Lstrip(excludes[i], Sep)]
            /\ commands' = RewriteEntries(commands, HeaderTargets(commands, commands_inc),
                                          excludes', path_relative, 1)
       ELSE UNCHANGED <<excludes, commands>>
    /\ pc' = "save_commands"
    /\ UNCHANGED <<env, path_config, path_build, path_relative,
                   commands_inc, commands_exc, out_inc, out_exc, exit_status>>

SaveCommands ==
    /\ pc = "save_commands"
    /\ out_inc' = Dump(commands, commands_inc)
    /\ out_exc' = Dump(commands, commands_exc)
    /\ pc' = "done"
    /\ exit_status' = 0
    /\ UNCHANGED <<env, path_config, path_build, path_relative, commands,
                   excludes, commands_inc, commands_exc>>

Next ==
    \/ ReadArgs
    \/ ReadConfig
    \/ ReadCommands
    \/ FilterSources
    \/ FilterHeaders
    \/ SaveCommands

Spec == Init /\ [][Next]_vars

SpecHeaders == InitHeaders /\ [][Next]_vars

----------------------------------------------------------------------------
\* Vocabulary of the properties, stated over the input files and the outputs

Range(s) == {s[i] : i \in DOMAIN s}

AfterSources == pc \in {"filter_headers", "save_commands", "done"}

AfterHeaders == pc \in {"save_commands", "done"}

Increasing(s) == \A a, b \in DOMAIN s : a < b => s[a] < s[b]

\* the directory of entry i's file relative to the script's directory
RelDir(i) == Relpath(Dirname(database_file[i].file), argv0_dir, argv0_dir)

\* one separator followed by that directory
RelDirStr(i) == <<Sep>> \o RelDir(i)

\* rule j as a string: one separator, then the segments joined by separators
RuleStr(j) == <<Sep>> \o Join(Sep, config_file[j])

Matches(i) == \E j \in DOMAIN config_file : Contains(RuleStr(j), RelDirStr(i))

NoEntryMatches == \A i \in DOMAIN database_file : ~Matches(i)

\* rule j's segments coincide with consecutive whole segments of the directory
SegmentMatch(i, j) ==
    LET segs == Split(RelDir(i), Sep)
        rule == config_file[j]
    IN  \E k \in 0..(Len(segs) - Len(rule)) : SubSeq(segs, k + 1, k + Len(rule)) = rule

\* <script dir>/<rule path> and the plain-include flag for it
RulePath(j) == argv0_dir \o <<Sep>> \o Join(Sep, config_file[j])

PlainFlag(j) == <<"-", "I">> \o RulePath(j)

HasPlainFlag(text) == \E j \in DOMAIN config_file : Contains(PlainFlag(j), text)

\* path p is the directory of rule j or a directory beneath it
UnderRule(p, j) == p = RulePath(j) \/ StartsWith(p, RulePath(j) \o <<Sep>>)

Tokens(text) == Range(Split(text, " "))

SameButCommand(a, b) == a = [b EXCEPT !.command = a.command]

\* the plain-include flag filter_headers searches for on behalf of rule j
BuiltFlag(j) == HeaderInclude(Lstrip(RuleStr(j), Sep), argv0_dir)

HasBuiltFlag(text) == \E j \in DOMAIN config_file : Contains(BuiltFlag(j), text)

----------------------------------------------------------------------------
\* C1. Partition completeness: after filter_sources every input entry is
\* referred to by exactly one of commands_inc and commands_exc: the lengths
\* add up to the number of input entries, the two lists share no entry (by
\* identity and by content) and together they hold exactly the input entries.
PartitionComplete ==
    AfterSources =>
        /\ Len(commands_inc) + Len(commands_exc) = Len(database_file)
        /\ Range(commands_inc) \cap Range(commands_exc) = {}
        /\ Range(commands_inc) \cup Range(commands_exc) = DOMAIN database_file
        /\ {database_file[i] : i \in Range(commands_inc)}
              \cap {database_file[i] : i \in Range(commands_exc)} = {}
        /\ pc = "filter_headers" =>
              Range(Dump(commands, commands_inc)) \cup Range(Dump(commands, commands_exc))
                 = Range(database_file)

PartitionCompleteWitness ==
    /\ pc = "filter_headers"
    /\ Len(commands_inc) >= 1
    /\ Len(commands_exc) >= 1

\* C2. Exclusion correctness: after filter_sources an entry is excluded iff
\* separator + (directory of its file relative to the script's directory)
\* contains some rule string as a substring, and included iff it contains none.
ExclusionCorrect ==
    AfterSources =>
        \A i \in DOMAIN database_file :
            /\ i \in Range(commands_exc) <=> Matches(i)
            /\ i \in Range(commands_inc) <=> ~Matches(i)

ExclusionCorrectWitness ==
    /\ pc = "filter_headers"
    /\ Len(config_file) = 2
    /\ \E i \in Range(commands_exc) : ~Contains(RuleStr(1), RelDirStr(i))
    /\ commands_inc # <<>>

\* C3. No partial-segment matches: every excluded entry has a rule whose
\* segments coincide with whole separator-delimited segments of the entry's
\* relative directory.
NoPartialSegmentMatch ==
    AfterSources =>
        \A i \in Range(commands_exc) : \E j \in DOMAIN config_file : SegmentMatch(i, j)

\* C4. Order preservation: commands_inc and commands_exc each list the input
\* entries in input order, and the k-th element of each written array is the
\* entry its list names k-th.
OrderPreserved ==
    /\ AfterSources => Increasing(commands_inc) /\ Increasing(commands_exc)
    /\ pc = "done" =>
          /\ Len(out_inc) = Len(commands_inc)
          /\ Len(out_exc) = Len(commands_exc)
          /\ \A k \in DOMAIN commands_inc :
                out_inc[k].file = database_file[commands_inc[k]].file
          /\ \A k \in DOMAIN commands_exc :
                out_exc[k].file = database_file[commands_exc[k]].file

OrderPreservedWitness ==
    /\ pc = "done"
    /\ Len(out_inc) >= 2
    /\ out_inc[1].file # out_inc[2].file

\* C5. Header rewrite postcondition: after filter_headers no included entry's
\* command contains the plain-include flag of any rule.
HeaderRewritePostcondition ==
    AfterHeaders =>
        \A i \in Range(commands_inc) : ~HasPlainFlag(commands[i].command)

\* C6. Idempotence of the header rewrite: rewriting a command that
\* filter_headers has rewritten once, with the same rules, changes nothing.
HeaderRewriteIdempotent ==
    AfterHeaders =>
        \A i \in Range(commands_inc) :
            RewriteCommand(commands[i].command, excludes, path_relative)
               = commands[i].command

\* C7 as stated. No-op on no matches: when no entry's relative directory
\* contains a rule string, the excluded output is empty and the included
\* output equals the input database, commands included.
NoOpOnNoMatches ==
    (pc = "done" /\ NoEntryMatches) =>
        /\ out_exc = <<>>
        /\ out_inc = database_file

\* C7 as amended. When no entry's relative directory contains a rule string,
\* the excluded output is empty, the included output holds the input entries
\* in input order with every key but `command` unchanged, and an entry whose
\* command contains none of the plain-include flags filter_headers searches
\* for is written verbatim.
NoOpOnNoMatchesAmended ==
    (pc = "done" /\ NoEntryMatches) =>
        /\ out_exc = <<>>
        /\ Len(out_inc) = Len(database_file)
        /\ \A i \in DOMAIN database_file :
              /\ SameButCommand(out_inc[i], database_file[i])
              /\ ~HasBuiltFlag(database_file[i].command) => out_inc[i] = database_file[i]

NoOpOnNoMatchesWitness ==
    /\ pc = "done"
    /\ NoEntryMatches
    /\ config_file # <<>>
    /\ \E i \in DOMAIN database_file : ~HasBuiltFlag(database_file[i].command)
    /\ \E i \in DOMAIN database_file : out_inc[i] # database_file[i]

\* C8. Frame of the pipeline: every excluded entry is written exactly as
\* read, and every included entry is written as read but for its `command`;
\* in memory no entry ever differs from the one read but in the `command` of
\* an included entry.
FrameOfPipeline ==
    /\ AfterSources =>
          /\ Len(commands) = Len(database_file)
          /\ \A i \in Range(commands_exc) : commands[i] = database_file[i]
          /\ \A i \in Range(commands_inc) : SameButCommand(commands[i], database_file[i])
    /\ pc = "done" =>
          /\ out_exc = [k \in DOMAIN commands_exc |-> database_file[commands_exc[k]]]
          /\ DOMAIN out_inc = DOMAIN commands_inc
          /\ \A k \in DOMAIN commands_inc :
                SameButCommand(out_inc[k], database_file[commands_inc[k]])

FrameOfPipelineWitness ==
    /\ pc = "done"
    /\ \E k \in DOMAIN out_exc : HasPlainFlag(out_exc[k].command)
    /\ \E k \in DOMAIN out_inc : out_inc[k].command # database_file[commands_inc[k]].command

\* C9. Missing input file, strict mode: when the config file or the
\* compilation database is absent the run never reaches save_commands, leaves
\* both output files unwritten, and where it stops it stops with a non-zero
\* status: at read_config when the config is absent, at read_commands when
\* only the database is.
StrictMissingInput ==
    /\ (~config_exists \/ ~database_exists) =>
          /\ out_inc = NotWritten
          /\ out_exc = NotWritten
          /\ pc \in {"read_args", "read_config", "read_commands", "exit"}
          /\ pc = "exit" => exit_status > 0
          /\ pc # "exit" => exit_status = -1
    /\ ~config_exists => pc # "read_commands"
    /\ pc = "exit" => (~config_exists \/ ~database_exists)

StrictMissingInputWitness ==
    /\ pc = "exit"
    /\ config_exists
    /\ ~database_exists

\* C10. The header rewrite touches only flags for excluded directories: an
\* -I<path> flag of an included entry's command whose path is neither a
\* rule's directory nor beneath one is still a flag of the rewritten command.
OnlyExcludedFlagsRewritten ==
    AfterHeaders =>
        \A i \in Range(commands_inc) :
            \A t \in Tokens(database_file[i].command) :
                (/\ StartsWith(t, <<"-", "I">>)
                 /\ ~\E j \in DOMAIN config_file : UnderRule(SubSeq(t, 3, Len(t)), j))
                => t \in Tokens(commands[i].command)

====
